---- MODULE Spec2Model ----
(***************************************************************************)
(* The request/response pipeline of cloudcraft-go: client construction,    *)
(* NewRequest, Do (202 retry loop, completion callback, CheckResponse,     *)
(* decode, deferred drain/close) and the resource services built on it.    *)
(* One caller goroutine issues calls; a second goroutine may re-register   *)
(* the completion callback (SpecConc).                                     *)
(***************************************************************************)
EXTENDS Integers, Sequences, FiniteSets, TLC

VARIABLES
    client,              \* the Client built by New / NewFromToken (headers, BaseURL, UserAgent)
    onRequestCompleted,  \* Client.onRequestCompleted: "nil" or a callback name
    pc,                  \* position of the caller: idle, send, cbcheck, cbcall, process, done, panic
    call,                \* the operation in progress and its arguments
    req,                 \* the *http.Request built for the call (Nil before NewRequest)
    dest,                \* the destination v handed to Do (Nil for a nil v)
    sendLog,             \* one entry per DoRequestWithClient of the call
    resp,                \* the resp variable of Do after the retry loop (Nil = nil pointer)
    cbSeen,              \* what the nil test of line 244 read
    cbLog,               \* the callback invocations of the call
    bodyLog,             \* the operations performed on the final response body
    openBodies,          \* response bodies received during the call and not yet closed
    deferErr,            \* the local err of Do after the deferred function has run
    ret,                 \* what the operation returned: result, response, error
    panicAt              \* where the call panicked ("" when it did not)

vars == <<client, onRequestCompleted, pc, call, req, dest, sendLog, resp, cbSeen,
          cbLog, bodyLog, openBodies, deferErr, ret, panicAt>>

----------------------------------------------------------------------------
(* Pointers and interface values: Nil is the nil pointer, Some(x) points to x. *)
Nil == <<>>
Some(x) == <<x>>
Val(o) == o[1]

(* Bounds of the model *)
MaxSends == 3        \* attempts modelled per Do call (the code has no cap)

(* Constants of the program *)
libraryVersion == "1.0.0"
defaultBaseURL == "https://api.cloudcraft.co/"
userAgent == "cloudcraft-go/" \o libraryVersion
mediaType == "application/json"
blueprintBasePath == "blueprint"
awsAccountBasePath == "aws/account"
userBasePath == "user"

RECURSIVE Join(_)
(* The string a sequence of string pieces spells. *)
Join(pieces) == IF pieces = <<>> THEN "" ELSE Head(pieces) \o Join(Tail(pieces))

----------------------------------------------------------------------------
(* Inputs *)
Tokens == {"tokA", "tokB"}
Ids == {"", "x1", "y2"}
Callbacks == {"nil", "cb1", "cb2"}
Methods == {"GET", "HEAD", "OPTIONS", "POST", "PUT", "PATCH", "DELETE"}

(* Static header maps a caller may pass to SetRequestHeaders. *)
HeaderSets == { ("content-type" :> "text/plain") }

----------------------------------------------------------------------------
(* net/http header maps: canonical key -> sequence of values *)
EmptyHeader == [k \in {} |-> <<>>]

(* textproto.CanonicalMIMEHeaderKey on the keys the model uses. *)
CanonicalKey(k) ==
    CASE k = "content-type" -> "Content-Type"
      [] k = "authorization" -> "Authorization"
      [] k = "accept" -> "Accept"
      [] OTHER -> k

HeaderSet(h, k, v) ==
    LET ck == CanonicalKey(k)
    IN [x \in DOMAIN h \cup {ck} |-> IF x = ck THEN <<v>> ELSE h[x]]

HeaderAdd(h, k, v) ==
    LET ck == CanonicalKey(k)
    IN [x \in DOMAIN h \cup {ck} |->
            IF x # ck THEN h[x]
            ELSE IF ck \in DOMAIN h THEN Append(h[ck], v) ELSE <<v>>]

RECURSIVE AddStaticHeaders(_, _, _)
(* for k, v := range c.headers { req.Header.Add(k, v) } *)
AddStaticHeaders(h, static, keys) ==
    IF keys = {} THEN h
    ELSE LET k == CHOOSE x \in keys : TRUE
         IN AddStaticHeaders(HeaderAdd(h, k, static[k]), static, keys \ {k})

----------------------------------------------------------------------------
(* Client construction *)
NewClient ==
    [BaseURL |-> defaultBaseURL, UserAgent |-> userAgent,
     headers |-> [k \in {} |-> ""], ctor |-> "New", token |-> ""]

SetRequestHeaders(c, headers) ==
    [c EXCEPT !.headers =
        [k \in DOMAIN c.headers \cup DOMAIN headers |->
            IF k \in DOMAIN headers THEN headers[k] ELSE c.headers[k]]]

BearerValue(token) == "Bearer" \o token

NewFromToken(token) ==
    [SetRequestHeaders(NewClient, ("Authorization" :> BearerValue(token)))
        EXCEPT !.ctor = "NewFromToken", !.token = token]

Clients ==
    {NewClient}
    \cup {SetRequestHeaders(NewClient, h) : h \in HeaderSets}
    \cup {NewFromToken(t) : t \in Tokens}

----------------------------------------------------------------------------
(* Error values. kind names the Go type: ArgError, url.Error, json errors,  *)
(* the transport's error, *ErrorResponse.                                    *)
MkErr(kind, arg, msg) ==
    [kind |-> kind, arg |-> arg, Message |-> msg, Code |-> 0,
     method |-> "", url |-> "", status |-> 0]

NewArgError(arg, reason) == MkErr("ArgError", arg, reason)

----------------------------------------------------------------------------
(* Paths and URLs. A path is the sequence of pieces fmt.Sprintf wrote; its  *)
(* string is Join(path).                                                     *)

(* fmt's output for a string operand under the verb %d *)
SprintfD(s) == <<"%!d(string=", s, ")">>

(* Pieces holding a '%' that is not followed by two hex digits. *)
BadEscapes == {"%!d(string=", "%zz"}

(* url.Parse rejects an invalid percent-escape. *)
UrlParseFails(path) == \E i \in 1..Len(path) : path[i] \in BadEscapes

(* url.Values.Encode of the key/value pairs query.Values produced (sorted by key). *)
RECURSIVE EncodeQuery(_)
EncodeQuery(pairs) ==
    IF pairs = <<>> THEN ""
    ELSE Head(pairs)[1] \o "=" \o Head(pairs)[2]
         \o (IF Len(pairs) > 1 THEN "&" ELSE "") \o EncodeQuery(Tail(pairs))

(* addOptions: opt is Nil (a nil pointer) or Some(pairs). *)
addOptions(s, opt) ==
    IF opt = Nil THEN [path |-> s, err |-> Nil]
    ELSE IF UrlParseFails(s) THEN [path |-> s, err |-> Some(MkErr("url.Error", "", Join(s)))]
    ELSE [path |-> s \o <<"?", EncodeQuery(Val(opt))>>, err |-> Nil]

----------------------------------------------------------------------------
(* Request bodies the caller passes: Nil, or a value json.Encoder writes as  *)
(* text (followed by a newline), or a value it cannot encode.                *)
CreateBody == [encodable |-> TRUE, json |-> "{\"data\":null}"]
AccountBody == [encodable |-> TRUE, json |-> "{\"name\":\"prod\",\"roleArn\":\"arn\"}"]
BadBody == [encodable |-> FALSE, json |-> ""]

(* a method switch that forgets HEAD and OPTIONS *)
IsGetOnly(method) == method = "GET"

IsGetClass(method) == method \in {"GET", "HEAD", "OPTIONS"}

(* Client.NewRequest *)
NewRequest(c, method, urlStr, body) ==
    IF UrlParseFails(urlStr)
    THEN [req |-> Nil, err |-> Some(MkErr("url.Error", "", Join(urlStr)))]
    ELSE IF ~IsGetClass(method) /\ body # Nil /\ ~Val(body).encodable
    THEN [req |-> Nil, err |-> Some(MkErr("json.UnsupportedTypeError", "", ""))]
    ELSE
      LET u == c.BaseURL \o Join(urlStr)
          buf == IF body # Nil THEN Val(body).json \o "\n" ELSE ""
          r0 == IF IsGetClass(method)
                THEN [method |-> method, url |-> u, path |-> urlStr, Header |-> EmptyHeader,
                      Body |-> Nil, ContentLength |-> 0, unread |-> ""]
                ELSE [method |-> method, url |-> u, path |-> urlStr,
                      Header |-> HeaderSet(EmptyHeader, "Content-Type", mediaType),
                      Body |-> Some(buf), ContentLength |-> Len(buf), unread |-> buf]
          h1 == AddStaticHeaders(r0.Header, c.headers, DOMAIN c.headers)
          h2 == HeaderSet(h1, "Accept", mediaType)
          h3 == HeaderSet(h2, "User-Agent", c.UserAgent)
      IN [req |-> Some([r0 EXCEPT !.Header = h3]), err |-> Nil]

----------------------------------------------------------------------------
(* Response bodies: the raw text and the JSON value that text denotes.      *)
(* fields maps each key of a JSON object to the JSON type and the Go value  *)
(* of its member.                                                           *)
NoFields == [k \in {} |-> [type |-> "", val |-> ""]]

NotJson(raw) == [raw |-> raw, valid |-> FALSE, kind |-> "", fields |-> NoFields]
JsonObject(raw, fields) == [raw |-> raw, valid |-> TRUE, kind |-> "object", fields |-> fields]
JsonArray(raw) == [raw |-> raw, valid |-> TRUE, kind |-> "array", fields |-> NoFields]

BodyEmpty == NotJson("")
BodyText == NotJson("internal error")
BodySvg == NotJson("<svg/>")
BodyApiError ==
    JsonObject("{\"error\":\"not found\",\"code\":404}",
               ("error" :> [type |-> "string", val |-> "not found"])
               @@ ("code" :> [type |-> "int", val |-> 404]))
BodyMistyped ==
    JsonObject("{\"code\":404,\"error\":17}",
               ("code" :> [type |-> "int", val |-> 404])
               @@ ("error" :> [type |-> "int", val |-> 17]))
BodyResource ==
    JsonObject("{\"id\":\"x1\",\"name\":\"web\"}",
               ("id" :> [type |-> "string", val |-> "x1"])
               @@ ("name" :> [type |-> "string", val |-> "web"]))
BodyLists ==
    JsonObject("{\"blueprints\":[],\"accounts\":[]}",
               ("blueprints" :> [type |-> "array", val |-> Some(<<>>)])
               @@ ("accounts" :> [type |-> "array", val |-> Some(<<>>)]))
BodyArray == JsonArray("[1,2]")

(* n copies of s *)
RECURSIVE Repeat(_, _)
Repeat(s, n) == IF n = 0 THEN "" ELSE s \o Repeat(s, n - 1)

(* a body of 2064 bytes, longer than the 2048 bytes Do's cleanup discards *)
BodyLarge == NotJson(Repeat("0123456789abcdef", 129))

Bodies == {BodyEmpty, BodyText, BodySvg, BodyApiError, BodyMistyped, BodyResource,
           BodyLists, BodyArray}

----------------------------------------------------------------------------
(* Destination types. schema maps a JSON key to the struct field it fills   *)
(* and the JSON type that field accepts; zero is the value new(T) holds;    *)
(* writer says whether *T has a Write method (implements io.Writer).        *)
StrField(f) == [field |-> f, type |-> "string"]

ErrorResponseType ==
    [name |-> "ErrorResponse", writer |-> FALSE,
     schema |-> ("error" :> StrField("Message")) @@ ("code" :> [field |-> "Code", type |-> "int"]),
     zero |-> [Message |-> "", Code |-> 0]]
BlueprintType ==
    [name |-> "Blueprint", writer |-> FALSE,
     schema |-> ("id" :> StrField("Id")) @@ ("name" :> StrField("Name")),
     zero |-> [Id |-> "", Name |-> ""]]
BlueprintsRootType ==
    [name |-> "BlueprintsRoot", writer |-> FALSE,
     schema |-> ("blueprints" :> [field |-> "Blueprints", type |-> "array"]),
     zero |-> [Blueprints |-> Nil]]
BlueprintImageType ==
    [name |-> "BlueprintImage", writer |-> FALSE,
     schema |-> ("ContentType" :> StrField("ContentType")),
     zero |-> [ContentType |-> "", Content |-> Nil]]
AwsAccountType ==
    [name |-> "AwsAccount", writer |-> FALSE,
     schema |-> ("id" :> StrField("Id")) @@ ("name" :> StrField("Name")),
     zero |-> [Id |-> "", Name |-> ""]]
AwsAccountsRootType ==
    [name |-> "AwsAccountsRoot", writer |-> FALSE,
     schema |-> ("accounts" :> [field |-> "AwsAccounts", type |-> "array"]),
     zero |-> [AwsAccounts |-> Nil]]
AwsAccountSnapshotType ==
    [name |-> "AwsAccountSnapshot", writer |-> FALSE,
     schema |-> ("ContentType" :> StrField("ContentType")),
     zero |-> [ContentType |-> "", Content |-> Nil]]
AwsAccountIamParametersType ==
    [name |-> "AwsAccountIamParameters", writer |-> FALSE,
     schema |-> ("accountId" :> StrField("AccountId")),
     zero |-> [AccountId |-> ""]]
UserType ==
    [name |-> "User", writer |-> FALSE,
     schema |-> ("id" :> StrField("ID")) @@ ("name" :> StrField("Name")),
     zero |-> [ID |-> "", Name |-> ""]]
(* *bytes.Buffer, the io.Writer a caller of Do may pass *)
BufferType ==
    [name |-> "bytes.Buffer", writer |-> TRUE,
     schema |-> [k \in {} |-> StrField("")],
     zero |-> [Content |-> Nil]]

(* new(T) *)
New(T) == [type |-> T, val |-> T.zero]

(* v.(io.Writer) *)
IsWriter(v) == v.type.writer

(* json.Unmarshal(data, v) for a non-empty data: a syntax error leaves v    *)
(* untouched; a member whose JSON type does not fit its field is skipped    *)
(* and reported, the other members are still stored.                        *)
Unmarshal(body, v) ==
    IF ~body.valid THEN [v |-> v, err |-> Some(MkErr("json.SyntaxError", "", ""))]
    ELSE IF body.kind # "object"
    THEN [v |-> v, err |-> Some(MkErr("json.UnmarshalTypeError", "", ""))]
    ELSE
      LET schema == v.type.schema
          keys == DOMAIN body.fields \cap DOMAIN schema
          fits(k) == body.fields[k].type = schema[k].type
          stored == {k \in keys : fits(k)}
          val2 == [f \in DOMAIN v.val |->
                     IF \E k \in stored : schema[k].field = f
                     THEN body.fields[CHOOSE k \in stored : schema[k].field = f].val
                     ELSE v.val[f]]
      IN [v |-> [v EXCEPT !.val = val2],
          err |-> IF stored # keys THEN Some(MkErr("json.UnmarshalTypeError", "", ""))
                  ELSE Nil]

(* json.NewDecoder(r).Decode(v): io.EOF on an empty stream *)
Decode(body, v) ==
    IF body.raw = "" THEN [v |-> v, err |-> Some(MkErr("io.EOF", "", ""))]
    ELSE Unmarshal(body, v)

(* [200,299] *)
StatusIsSuccess(c) == c >= 200 /\ c <= 299

(* CheckResponse: Nil for a 2xx status, else the *ErrorResponse. r carries   *)
(* the response and, in r.Request, the request that produced it.             *)
CheckResponse(r) ==
    IF StatusIsSuccess(r.StatusCode) THEN Nil
    ELSE
      LET e0 == New(ErrorResponseType)
          data == r.Body
          e1 == IF Len(data.raw) > 0
                THEN LET u == Unmarshal(data, e0)
                     IN IF u.err # Nil
                        THEN [u.v EXCEPT !.val.Message = data.raw]
                        ELSE u.v
                ELSE e0
      IN Some([kind |-> "ErrorResponse", arg |-> "", Message |-> e1.val.Message,
               Code |-> e1.val.Code, method |-> r.Request.method,
               url |-> r.Request.url, status |-> r.StatusCode])

(* ErrorResponse.Error *)
ErrorString(e) ==
    e.method \o " " \o e.url \o ": " \o ToString(e.status) \o " " \o e.Message

----------------------------------------------------------------------------
(* Resource services. Each operation is evaluated up to its call of Do and  *)
(* yields a plan: return at once, panic, or call Do with a request and a    *)
(* destination; post says how the operation builds its result from the      *)
(* destination once Do has returned.                                        *)
Return3(result, response, err) ==
    [kind |-> "return", req |-> Nil, v |-> Nil, post |-> "",
     ret |-> [result |-> result, resp |-> response, err |-> err], where |-> ""]

DoPlan(request, v, post) ==
    [kind |-> "do", req |-> request, v |-> v, post |-> post,
     ret |-> [result |-> Nil, resp |-> Nil, err |-> Nil], where |-> ""]

PanicPlan(where) ==
    [kind |-> "panic", req |-> Nil, v |-> Nil, post |-> "",
     ret |-> [result |-> Nil, resp |-> Nil, err |-> Nil], where |-> where]

(* req, err := s.client.NewRequest(...); if err != nil { return nil, nil, err }; Do(ctx, req, v) *)
BuildAndDo(c, method, path, body, v, post) ==
    LET r == NewRequest(c, method, path, body)
    IN IF r.err # Nil THEN Return3(Nil, Nil, r.err) ELSE DoPlan(r.req, v, post)

BlueprintsList(c) ==
    BuildAndDo(c, "GET", <<blueprintBasePath>>, Nil, Some(New(BlueprintsRootType)), "Blueprints")

BlueprintsGet(c, blueprintId) ==
    IF blueprintId = "" THEN Return3(Nil, Nil, Some(NewArgError("blueprintId", "cannot be empty")))
    ELSE BuildAndDo(c, "GET", <<blueprintBasePath, "/", blueprintId>>, Nil,
                    Some(New(BlueprintType)), "ptr")

BlueprintsCreate(c, createRequest) ==
    IF createRequest = Nil
    THEN Return3(Nil, Nil, Some(NewArgError("createRequest", "cannot be nil")))
    ELSE BuildAndDo(c, "POST", <<blueprintBasePath>>, createRequest,
                    Some(New(BlueprintType)), "ptr")

(* an Update without its nil test of the request body *)
BlueprintsUpdateNoNilTest(c, blueprintId, updateRequest) ==
    IF blueprintId = "" THEN Return3(Nil, Nil, Some(NewArgError("blueprintId", "cannot be empty")))
    ELSE BuildAndDo(c, "PUT", <<blueprintBasePath>>, updateRequest,
                    Some(New(BlueprintType)), "ptr")

BlueprintsUpdate(c, blueprintId, updateRequest) ==
    IF blueprintId = "" THEN Return3(Nil, Nil, Some(NewArgError("blueprintId", "cannot be empty")))
    ELSE IF updateRequest = Nil
    THEN Return3(Nil, Nil, Some(NewArgError("updateRequest", "cannot be nil")))
    ELSE BuildAndDo(c, "PUT", <<blueprintBasePath>>, updateRequest,
                    Some(New(BlueprintType)), "ptr")

BlueprintsDelete(c, blueprintId) ==
    IF blueprintId = "" THEN Return3(Nil, Nil, Some(NewArgError("blueprintId", "cannot be empty")))
    ELSE BuildAndDo(c, "DELETE", <<blueprintBasePath, "/", blueprintId>>, Nil, Nil, "none")

BlueprintsExport(c, blueprintId, exportRequest) ==
    IF blueprintId = "" THEN Return3(Nil, Nil, Some(NewArgError("blueprintId", "cannot be empty")))
    ELSE IF exportRequest = Nil THEN PanicPlan("Blueprints.Export: exportRequest.Format")
    ELSE
      LET o == addOptions(<<blueprintBasePath, "/", blueprintId, "/", Val(exportRequest).Format>>,
                          Val(exportRequest).Parameters)
      IN IF o.err # Nil THEN Return3(Nil, Nil, o.err)
         ELSE BuildAndDo(c, "GET", o.path, Nil, Some(New(BlueprintImageType)), "ptr")

AwsAccountsList(c) ==
    BuildAndDo(c, "GET", <<awsAccountBasePath>>, Nil, Some(New(AwsAccountsRootType)), "AwsAccounts")

AwsAccountsGet(c, awsAccountID) ==
    IF awsAccountID = "" THEN Return3(Nil, Nil, Some(NewArgError("awsAccountID", "cannot be empty")))
    ELSE BuildAndDo(c, "GET", <<awsAccountBasePath, "/", awsAccountID>>, Nil,
                    Some(New(AwsAccountType)), "ptr")

AwsAccountsCreate(c, createRequest) ==
    IF createRequest = Nil
    THEN Return3(Nil, Nil, Some(NewArgError("createRequest", "cannot be nil")))
    ELSE BuildAndDo(c, "POST", <<awsAccountBasePath>>, createRequest,
                    Some(New(AwsAccountType)), "ptr")

AwsAccountsUpdate(c, awsAccountID, updateRequest) ==
    IF awsAccountID = "" THEN Return3(Nil, Nil, Some(NewArgError("awsAccountID", "cannot be empty")))
    ELSE IF updateRequest = Nil
    THEN Return3(Nil, Nil, Some(NewArgError("updateRequest", "cannot be nil")))
    ELSE BuildAndDo(c, "PUT", <<awsAccountBasePath, "/", awsAccountID>>, updateRequest,
                    Some(New(AwsAccountType)), "ptr")

AwsAccountsDelete(c, awsAccountID) ==
    IF awsAccountID = "" THEN Return3(Nil, Nil, Some(NewArgError("awsAccountID", "cannot be empty")))
    ELSE BuildAndDo(c, "DELETE", <<awsAccountBasePath, "/", awsAccountID>>, Nil, Nil, "none")

AwsAccountsSnapshot(c, awsAccountID, snapshotRequest) ==
    IF awsAccountID = "" THEN Return3(Nil, Nil, Some(NewArgError("awsAccountID", "cannot be empty")))
    ELSE IF snapshotRequest = Nil THEN PanicPlan("AwsAccounts.Snapshot: snapshotRequest.Region")
    ELSE
      LET o == addOptions(<<awsAccountBasePath, "/", awsAccountID, "/",
                            Val(snapshotRequest).Region, "/", Val(snapshotRequest).Format>>,
                          Val(snapshotRequest).Parameters)
      IN IF o.err # Nil THEN Return3(Nil, Nil, o.err)
         ELSE BuildAndDo(c, "GET", o.path, Nil, Some(New(AwsAccountSnapshotType)), "ptr")

AwsAccountsIamParameters(c) ==
    BuildAndDo(c, "GET", <<awsAccountBasePath, "/iamParameters">>, Nil,
               Some(New(AwsAccountIamParametersType)), "ptr")

UsersGet(c, userID) ==
    IF userID = "" THEN Return3(Nil, Nil, Some(NewArgError("userID", "cannot be empty")))
    ELSE BuildAndDo(c, "GET", <<userBasePath, "/">> \o SprintfD(userID), Nil,
                    Some(New(UserType)), "ptr")

UsersMe(c) == UsersGet(c, "me")

(* A caller that uses the pipeline directly: NewRequest alone, and          *)
(* NewRequest followed by Do with a *bytes.Buffer destination.              *)
ClientNewRequest(c, method, path, body) ==
    LET r == NewRequest(c, method, path, body)
    IN [Return3(r.req, Nil, r.err) EXCEPT !.req = r.req]

ClientDo(c, path) ==
    BuildAndDo(c, "GET", path, Nil, Some(New(BufferType)), "none")

----------------------------------------------------------------------------
(* The operations a caller may invoke and the arguments it passes. *)
NoArgs == [id |-> "", body |-> Nil, xreq |-> Nil, method |-> "", path |-> <<>>]

ExportParameters ==
    <<<<"grid", "false">>, <<"height", "0">>, <<"landscape", "false">>, <<"paperSize", "">>,
      <<"scale", "0">>, <<"transparent", "false">>, <<"width", "800">>>>
ExportRequests ==
    {Nil,
     Some([Format |-> "svg", Region |-> "", Parameters |-> Nil]),
     Some([Format |-> "png", Region |-> "", Parameters |-> Some(ExportParameters)])}
SnapshotRequests ==
    {Nil,
     Some([Format |-> "svg", Region |-> "us-east-1", Parameters |-> Nil]),
     Some([Format |-> "png", Region |-> "us-east-1", Parameters |-> Some(<<<<"width", "800">>>>)])}

IdOps == {"Blueprints.Get", "Blueprints.Delete", "AwsAccounts.Get", "AwsAccounts.Delete",
          "Users.Get"}
PlainOps == {"Blueprints.List", "AwsAccounts.List", "AwsAccounts.IamParameters", "Users.Me"}
Ops == IdOps \cup PlainOps \cup
       {"Blueprints.Create", "Blueprints.Update", "Blueprints.Export",
        "AwsAccounts.Create", "AwsAccounts.Update", "AwsAccounts.Snapshot",
        "Client.NewRequest", "Client.Do"}

ArgsFor(op) ==
    CASE op \in PlainOps -> {NoArgs}
      [] op \in IdOps -> {[NoArgs EXCEPT !.id = i] : i \in Ids}
      [] op = "Blueprints.Create" -> {[NoArgs EXCEPT !.body = b] : b \in {Nil, Some(CreateBody)}}
      [] op = "AwsAccounts.Create" -> {[NoArgs EXCEPT !.body = b] : b \in {Nil, Some(AccountBody)}}
      [] op = "Blueprints.Update" ->
            {[NoArgs EXCEPT !.id = i, !.body = b] : i \in Ids, b \in {Nil, Some(CreateBody)}}
      [] op = "AwsAccounts.Update" ->
            {[NoArgs EXCEPT !.id = i, !.body = b] : i \in Ids, b \in {Nil, Some(AccountBody)}}
      [] op = "Blueprints.Export" ->
            {[NoArgs EXCEPT !.id = i, !.xreq = x] : i \in Ids, x \in ExportRequests}
      [] op = "AwsAccounts.Snapshot" ->
            {[NoArgs EXCEPT !.id = i, !.xreq = x] : i \in Ids, x \in SnapshotRequests}
      [] op = "Client.NewRequest" ->
            {[NoArgs EXCEPT !.method = m, !.path = p, !.body = b] :
                m \in Methods, p \in {<<"blueprint">>, <<"%zz">>},
                b \in {Nil, Some(CreateBody), Some(BadBody)}}
      [] op = "Client.Do" -> {[NoArgs EXCEPT !.path = <<"blueprint/x1/svg">>]}

(* The operation's code up to its call of Do. *)
Plan(c, op, a) ==
    CASE op = "Blueprints.List" -> BlueprintsList(c)
      [] op = "Blueprints.Get" -> BlueprintsGet(c, a.id)
      [] op = "Blueprints.Create" -> BlueprintsCreate(c, a.body)
      [] op = "Blueprints.Update" -> BlueprintsUpdate(c, a.id, a.body)
      [] op = "Blueprints.Delete" -> BlueprintsDelete(c, a.id)
      [] op = "Blueprints.Export" -> BlueprintsExport(c, a.id, a.xreq)
      [] op = "AwsAccounts.List" -> AwsAccountsList(c)
      [] op = "AwsAccounts.Get" -> AwsAccountsGet(c, a.id)
      [] op = "AwsAccounts.Create" -> AwsAccountsCreate(c, a.body)
      [] op = "AwsAccounts.Update" -> AwsAccountsUpdate(c, a.id, a.body)
      [] op = "AwsAccounts.Delete" -> AwsAccountsDelete(c, a.id)
      [] op = "AwsAccounts.Snapshot" -> AwsAccountsSnapshot(c, a.id, a.xreq)
      [] op = "AwsAccounts.IamParameters" -> AwsAccountsIamParameters(c)
      [] op = "Users.Get" -> UsersGet(c, a.id)
      [] op = "Users.Me" -> UsersMe(c)
      [] op = "Client.NewRequest" -> ClientNewRequest(c, a.method, a.path, a.body)
      [] op = "Client.Do" -> ClientDo(c, a.path)

(* an operation that hands back its destination whatever Do reported *)
ServiceReturnKeepsResult(post, v, doResp, doErr) ==
    IF post = "none" \/ v = Nil THEN [result |-> Nil, resp |-> doResp, err |-> doErr]
    ELSE IF post = "Blueprints"
    THEN [result |-> Val(v).val.Blueprints, resp |-> doResp, err |-> doErr]
    ELSE IF post = "AwsAccounts"
    THEN [result |-> Val(v).val.AwsAccounts, resp |-> doResp, err |-> doErr]
    ELSE [result |-> Some(Val(v).val), resp |-> doResp, err |-> doErr]

(* The operation's code after Do has returned (resp, err) with v filled. *)
ServiceReturn(post, v, doResp, doErr) ==
    IF post = "none" THEN [result |-> Nil, resp |-> doResp, err |-> doErr]
    ELSE IF doErr # Nil THEN [result |-> Nil, resp |-> doResp, err |-> doErr]
    ELSE IF post = "Blueprints"
    THEN [result |-> Val(v).val.Blueprints, resp |-> doResp, err |-> doErr]
    ELSE IF post = "AwsAccounts"
    THEN [result |-> Val(v).val.AwsAccounts, resp |-> doResp, err |-> doErr]
    ELSE [result |-> Some(Val(v).val), resp |-> doResp, err |-> doErr]

----------------------------------------------------------------------------
(* Transport (http.Client.Do behind DoRequestWithClient) *)

(* The bytes a send reads from the request's body: the unread rest of the   *)
(* buffer NewRequest attached, which every attempt shares.                   *)
Transmitted(r) == IF r.Body = Nil THEN "" ELSE r.unread

TransportFailure == [kind |-> "error", StatusCode |-> 0, Body |-> BodyEmpty, ContentLength |-> 0]

(* What one exchange can yield: a response; an error with a nil response;   *)
(* or, when the redirect policy gives up, an error together with the last   *)
(* 3xx response (its body already closed). A body shorter than the          *)
(* request's ContentLength makes the transport fail the send.               *)
Response(st, b, chunked) ==
    [kind |-> "response", StatusCode |-> st, Body |-> b,
     ContentLength |-> IF chunked THEN -1 ELSE Len(b.raw)]

(* The responses the server gives: every body under a success and under an  *)
(* error status, the statuses around 200 and 299, a chunked body, 202, and  *)
(* a body longer than maxBodySlurpSize with and without a known length.     *)
Responses ==
    {Response(st, b, FALSE) : st \in {200, 404}, b \in Bodies}
    \cup {Response(st, BodyResource, FALSE) : st \in {199, 299, 300}}
    \cup {Response(500, BodyText, FALSE), Response(200, BodySvg, TRUE),
          Response(202, BodyEmpty, FALSE)}
    \cup {Response(200, BodyLarge, FALSE), Response(200, BodyLarge, TRUE),
          Response(500, BodyLarge, FALSE)}

AllOutcomes ==
    {TransportFailure}
    \cup {[kind |-> "redirectError", StatusCode |-> 302, Body |-> BodyEmpty,
           ContentLength |-> 0]}
    \cup Responses

Outcomes(r) ==
    IF Len(Transmitted(r)) # r.ContentLength THEN {TransportFailure} ELSE AllOutcomes

(* DoRequestWithClient: the (resp, err) pair for an outcome *)
DoRequestWithClient(r, o) ==
    [resp |-> IF o.kind = "error" THEN Nil
              ELSE Some([StatusCode |-> o.StatusCode, Body |-> o.Body,
                         ContentLength |-> o.ContentLength,
                         Request |-> [method |-> r.method, url |-> r.url]]),
     err |-> IF o.kind = "response" THEN Nil
             ELSE Some(MkErr("TransportError", "", o.kind))]

----------------------------------------------------------------------------
(* Client.Do *)
maxBodySlurpSize == 2048

(* a loop test that retries every 2xx status other than 200 *)
IsProcessingAny2xx(r) == r.StatusCode > 200 /\ r.StatusCode <= 299

(* the loop test: resp.StatusCode == 202 *)
IsProcessing(r) == r.StatusCode = 202

(* Where Do goes after an attempt returned (r, err): evaluating the loop    *)
(* test on a nil resp panics; a 202 sends again; then err is tested.        *)
AfterAttempt(r, err) ==
    IF r = Nil THEN "panic"
    ELSE IF IsProcessing(Val(r)) THEN "send"
    ELSE IF err # Nil THEN "return"
    ELSE "cbcheck"

(* the nil test inverted *)
CallbackUnregistered(cb) == cb = "nil"

(* if c.onRequestCompleted != nil *)
CallbackRegistered(cb) == cb # "nil"

(* a drain test that only fires for a body of unknown length *)
DrainsUnknownLengthOnly(r) == r.ContentLength = -1

(* The deferred function's drain test *)
Drains(r) == r.ContentLength = -1 \/ r.ContentLength <= maxBodySlurpSize

(* Do from line 248 on, for the final response r and destination v:         *)
(* CheckResponse, the io.Writer copy or the JSON decode, then the deferred  *)
(* drain and close. rerr is the outcome of resp.Body.Close(). The deferred  *)
(* function assigns Do's local err, which is not a result parameter, so     *)
(* the returned error is the one of the return statement.                   *)
DoFinish(r, v, rerr) ==
    LET response == Some(r)
        checkErr == CheckResponse(r)
        body == IF checkErr # Nil
                THEN [resp |-> response, err |-> checkErr, v |-> v, log |-> <<"ReadAll">>]
                ELSE IF v = Nil
                THEN [resp |-> response, err |-> Nil, v |-> v, log |-> <<>>]
                ELSE IF IsWriter(Val(v))
                THEN [resp |-> response, err |-> Nil,
                      v |-> Some([Val(v) EXCEPT !.val.Content = Some(r.Body.raw)]),
                      log |-> <<"Copy">>]
                ELSE LET d == Decode(r.Body, Val(v))
                     IN [resp |-> IF d.err # Nil THEN Nil ELSE response,
                         err |-> d.err, v |-> Some(d.v), log |-> <<"Decode">>]
        deferred == (IF Drains(r) THEN <<"Drain">> ELSE <<>>) \o <<"Close">>
    IN [resp |-> body.resp, err |-> body.err, v |-> body.v,
        log |-> body.log \o deferred,
        deferErr |-> IF body.err = Nil THEN rerr ELSE body.err]

----------------------------------------------------------------------------
(* State machine *)
NoRet == [result |-> Nil, resp |-> Nil, err |-> Nil]
NoCall == [op |-> "", args |-> NoArgs, post |-> ""]

Init ==
    /\ client \in Clients
    /\ onRequestCompleted = "nil"
    /\ pc = "idle"
    /\ call = NoCall
    /\ req = Nil
    /\ dest = Nil
    /\ sendLog = <<>>
    /\ resp = Nil
    /\ cbSeen = "nil"
    /\ cbLog = <<>>
    /\ bodyLog = <<>>
    /\ openBodies = 0
    /\ deferErr = Nil
    /\ ret = NoRet
    /\ panicAt = ""

(* The caller invokes op with arguments a: the operation runs up to its     *)
(* first network exchange, or to its return when it makes none.             *)
Invoke(op, a) ==
    /\ pc = "idle"
    /\ LET p == Plan(client, op, a)
       IN /\ call' = [op |-> op, args |-> a, post |-> p.post]
          /\ req' = p.req
          /\ dest' = p.v
          /\ ret' = p.ret
          /\ pc' = CASE p.kind = "return" -> "done"
                     [] p.kind = "panic" -> "panic"
                     [] OTHER -> "send"
          /\ panicAt' = p.where
    /\ sendLog' = <<>>
    /\ resp' = Nil
    /\ cbSeen' = "nil"
    /\ cbLog' = <<>>
    /\ bodyLog' = <<>>
    /\ openBodies' = 0
    /\ deferErr' = Nil
    /\ UNCHANGED <<client, onRequestCompleted>>

(* One DoRequestWithClient of Do (line 235 or 238) with outcome o, and the  *)
(* tests that follow it (lines 237, 241).                                   *)
Send(o) ==
    /\ pc = "send"
    /\ Len(sendLog) < MaxSends
    /\ o \in Outcomes(Val(req))
    /\ LET x == DoRequestWithClient(Val(req), o)
           next == AfterAttempt(x.resp, x.err)
       IN /\ sendLog' = Append(sendLog, [sent |-> Transmitted(Val(req)), outcome |-> o])
          /\ req' = Some([Val(req) EXCEPT !.unread = ""])
          /\ resp' = x.resp
          /\ openBodies' = openBodies + (IF o.kind = "response" THEN 1 ELSE 0)
          /\ pc' = IF next = "return" THEN "done" ELSE next
          /\ panicAt' = IF next = "panic" THEN "Do: resp.StatusCode" ELSE ""
          /\ ret' = IF next = "return" THEN ServiceReturn(call.post, dest, Nil, x.err)
                    ELSE ret
    /\ UNCHANGED <<client, onRequestCompleted, call, dest, cbSeen, cbLog, bodyLog, deferErr>>

(* line 244: the nil test reads c.onRequestCompleted *)
CheckCallback ==
    /\ pc = "cbcheck"
    /\ cbSeen' = onRequestCompleted
    /\ pc' = IF CallbackRegistered(onRequestCompleted) THEN "cbcall" ELSE "process"
    /\ UNCHANGED <<client, onRequestCompleted, call, req, dest, sendLog, resp, cbLog,
                   bodyLog, openBodies, deferErr, ret, panicAt>>

(* line 245: the call reads c.onRequestCompleted again, or reuses the value *)
(* the test loaded; calling a nil func panics.                              *)
InvokeCallback(f) ==
    /\ pc = "cbcall"
    /\ f \in {cbSeen, onRequestCompleted}
    /\ IF f = "nil"
       THEN /\ pc' = "panic"
            /\ panicAt' = "Do: c.onRequestCompleted(req, resp)"
            /\ cbLog' = cbLog
       ELSE /\ pc' = "process"
            /\ panicAt' = panicAt
            /\ cbLog' = Append(cbLog, [cb |-> f, method |-> Val(req).method,
                                       url |-> Val(req).url,
                                       StatusCode |-> Val(resp).StatusCode,
                                       attempt |-> Len(sendLog), bodyLog |-> bodyLog])
    /\ UNCHANGED <<client, onRequestCompleted, call, req, dest, sendLog, resp, cbSeen,
                   bodyLog, openBodies, deferErr, ret>>

(* lines 248-287 and the operation's return *)
Process(rerr) ==
    /\ pc = "process"
    /\ LET d == DoFinish(Val(resp), dest, rerr)
       IN /\ dest' = d.v
          /\ bodyLog' = d.log
          /\ deferErr' = d.deferErr
          /\ ret' = ServiceReturn(call.post, d.v, d.resp, d.err)
    /\ openBodies' = openBodies - 1
    /\ pc' = "done"
    /\ UNCHANGED <<client, onRequestCompleted, call, req, sendLog, resp, cbSeen, cbLog,
                   panicAt>>

(* Client.OnRequestCompleted *)
OnRequestCompleted(rc) ==
    /\ onRequestCompleted' = rc
    /\ UNCHANGED <<client, pc, call, req, dest, sendLog, resp, cbSeen, cbLog, bodyLog,
                   openBodies, deferErr, ret, panicAt>>

(* The caller has the operation's results; the next call starts afresh. *)
Return ==
    /\ pc = "done"
    /\ pc' = "idle"
    /\ call' = NoCall
    /\ req' = Nil
    /\ dest' = Nil
    /\ sendLog' = <<>>
    /\ resp' = Nil
    /\ cbSeen' = "nil"
    /\ cbLog' = <<>>
    /\ bodyLog' = <<>>
    /\ openBodies' = 0
    /\ deferErr' = Nil
    /\ ret' = NoRet
    /\ UNCHANGED <<client, onRequestCompleted, panicAt>>

CloseErrors == {Nil, Some(MkErr("CloseError", "", ""))}

(* One goroutine: the callback is registered between calls. *)
Next ==
    \/ \E op \in Ops : \E a \in ArgsFor(op) : Invoke(op, a)
    \/ \E o \in AllOutcomes : Send(o)
    \/ CheckCallback
    \/ \E f \in Callbacks : InvokeCallback(f)
    \/ \E rerr \in CloseErrors : Process(rerr)
    \/ Return
    \/ \E rc \in Callbacks : pc = "idle" /\ OnRequestCompleted(rc)

Spec == Init /\ [][Next]_vars

(* A second goroutine calls OnRequestCompleted at any time. *)
NextConc ==
    \/ \E op \in Ops : \E a \in ArgsFor(op) : Invoke(op, a)
    \/ \E o \in AllOutcomes : Send(o)
    \/ CheckCallback
    \/ \E f \in Callbacks : InvokeCallback(f)
    \/ \E rerr \in CloseErrors : Process(rerr)
    \/ Return
    \/ \E rc \in Callbacks : OnRequestCompleted(rc)

SpecConc == Init /\ [][NextConc]_vars

----------------------------------------------------------------------------
(* Properties *)

Last(q) == q[Len(q)]
AllAnswered == \A i \in 1..Len(sendLog) : sendLog[i].outcome.kind = "response"
InRange2xx(st) == st \in 200..299

(* C1: when the server answers n attempts with 202 and the next with another *)
(* status, Do has sent exactly n+1 times: every attempt before the last was  *)
(* a 202, a 202 is followed by another send and yields no return value, and  *)
(* the first other status ends the sending; the response Do keeps, returns   *)
(* and classifies is that last one.                                          *)
C1_RetryUntilNot202 ==
    (sendLog # <<>> /\ AllAnswered) =>
        LET last == Last(sendLog).outcome
        IN /\ \A i \in 1..(Len(sendLog) - 1) : sendLog[i].outcome.StatusCode = 202
           /\ last.StatusCode = 202 => (pc = "send" /\ ret = NoRet /\ cbLog = <<>>)
           /\ last.StatusCode # 202 =>
                /\ pc \in {"cbcheck", "cbcall", "process", "done"}
                /\ resp # Nil
                /\ Val(resp).StatusCode = last.StatusCode
                /\ Val(resp).Body = last.Body
                /\ pc = "done" =>
                     /\ ret.resp # Nil => Val(ret.resp) = Val(resp)
                     /\ (ret.err # Nil /\ Val(ret.err).kind = "ErrorResponse")
                            <=> ~InRange2xx(last.StatusCode)
                     /\ (ret.err # Nil /\ Val(ret.err).kind = "ErrorResponse")
                            => Val(ret.err).status = last.StatusCode

C1_Witness ==
    /\ pc = "done"
    /\ Len(sendLog) = 3
    /\ sendLog[1].outcome.StatusCode = 202
    /\ sendLog[2].outcome.StatusCode = 202
    /\ sendLog[3].outcome.StatusCode = 200
    /\ ret.resp # Nil
    /\ ret.err = Nil

(* C2: a transport failure on any attempt is returned by Do as an error and *)
(* the call does not end in a panic.                                        *)
C2_TransportFailureReturned ==
    (sendLog # <<>> /\ Last(sendLog).outcome.kind # "response") =>
        /\ pc = "done"
        /\ ret.err # Nil
        /\ Val(ret.err).kind = "TransportError"
        /\ ret.resp = Nil

ResultOps == Ops \ {"Blueprints.Delete", "AwsAccounts.Delete", "Client.NewRequest", "Client.Do"}
ListOps == {"Blueprints.List", "AwsAccounts.List"}
ListKey(op) == IF op = "Blueprints.List" THEN "blueprints" ELSE "accounts"

(* The final body is one the operation's destination decodes: a JSON object. *)
FinalDecodes == Val(resp).Body.valid /\ Val(resp).Body.kind = "object"

StaticContentType == {k \in DOMAIN client.headers : k \in {"content-type", "Content-Type"}}

(* C4 as stated: a GET, HEAD or OPTIONS request has no body and no           *)
(* Content-Type header, whatever the static headers and the body passed.     *)
C4_GetClassNoBodyNoContentType ==
    (req # Nil /\ Val(req).method \in {"GET", "HEAD", "OPTIONS"}) =>
        /\ Val(req).Body = Nil
        /\ "Content-Type" \notin DOMAIN Val(req).Header

(* C4 amended: a GET, HEAD or OPTIONS request has no body, and the only      *)
(* Content-Type values it carries are those of the client's static headers.  *)
C4_GetClassOnlyStaticContentType ==
    (req # Nil /\ Val(req).method \in {"GET", "HEAD", "OPTIONS"}) =>
        /\ Val(req).Body = Nil
        /\ StaticContentType = {} => "Content-Type" \notin DOMAIN Val(req).Header
        /\ StaticContentType # {} =>
              /\ "Content-Type" \in DOMAIN Val(req).Header
              /\ \A i \in 1..Len(Val(req).Header["Content-Type"]) :
                    \E k \in StaticContentType :
                        Val(req).Header["Content-Type"][i] = client.headers[k]

C4_Witness ==
    /\ pc = "done"
    /\ call.op = "Client.NewRequest"
    /\ call.args.method = "HEAD"
    /\ call.args.body = Some(CreateBody)
    /\ req # Nil
    /\ Val(req).Body = Nil
    /\ "Content-Type" \notin DOMAIN Val(req).Header

IdKeyedOps == {"Blueprints.Get", "Blueprints.Update", "Blueprints.Delete", "Blueprints.Export",
               "AwsAccounts.Get", "AwsAccounts.Update", "AwsAccounts.Delete",
               "AwsAccounts.Snapshot", "Users.Get"}
BodyOps == {"Blueprints.Create", "Blueprints.Update", "AwsAccounts.Create", "AwsAccounts.Update"}
BadArguments ==
    \/ call.op \in IdKeyedOps /\ call.args.id = ""
    \/ call.op \in BodyOps /\ call.args.body = Nil

(* C5: an identifier-keyed operation called with an empty identifier, and a *)
(* Create or Update called with a nil body, returns an ArgError with a nil  *)
(* result and a nil response; no request is built and nothing is sent.      *)
C5_BadArgumentsNoNetwork ==
    BadArguments =>
        /\ pc = "done"
        /\ ret.result = Nil
        /\ ret.resp = Nil
        /\ ret.err # Nil
        /\ Val(ret.err).kind = "ArgError"
        /\ req = Nil
        /\ sendLog = <<>>

C5_Witness ==
    /\ pc = "done"
    /\ call.op = "AwsAccounts.Update"
    /\ call.args.id = "x1"
    /\ call.args.body = Nil
    /\ Val(ret.err).kind = "ArgError"
    /\ sendLog = <<>>

(* The value of member k of the body's JSON object, or zero when absent. *)
MemberOr(b, k, zero) == IF k \in DOMAIN b.fields THEN b.fields[k].val ELSE zero

(* The body is a JSON object whose error member, if any, is a string and    *)
(* whose code member, if any, is an integer.                                *)
ParsesAsErrorShape(b) ==
    /\ b.valid
    /\ b.kind = "object"
    /\ "error" \in DOMAIN b.fields => b.fields["error"].type = "string"
    /\ "code" \in DOMAIN b.fields => b.fields["code"].type = "int"

(* C6: for a final status outside [200,299] the error carries the body's     *)
(* error and code members when the body parses as the error shape, the raw   *)
(* body text and code 0 when it is non-empty and does not, and an empty      *)
(* message and code 0 when it is empty; its string form is                   *)
(* "<method> <url>: <status> <message>".                                     *)
C6_ErrorResultFromBody ==
    (pc = "done" /\ ret.err # Nil /\ Val(ret.err).kind = "ErrorResponse") =>
        LET e == Val(ret.err)
            b == Val(resp).Body
        IN /\ b.raw = "" => (e.Message = "" /\ e.Code = 0)
           /\ (b.raw # "" /\ ParsesAsErrorShape(b)) =>
                 /\ e.Message = MemberOr(b, "error", "")
                 /\ e.Code = MemberOr(b, "code", 0)
           /\ (b.raw # "" /\ ~ParsesAsErrorShape(b)) =>
                 (e.Message = b.raw /\ e.Code = 0)
           /\ ErrorString(e) = Val(req).method \o " " \o Val(req).url \o ": "
                               \o ToString(Val(resp).StatusCode) \o " " \o e.Message

RawOps == {"Blueprints.Export", "AwsAccounts.Snapshot"}

(* C7: for a final 2xx status Export and Snapshot pass Do a destination that *)
(* is an io.Writer, the body is copied into it verbatim, no JSON decoding is *)
(* attempted, and the operation succeeds whatever the body.                  *)
C7_ExportStreamsRawBody ==
    (pc = "done" /\ call.op \in RawOps /\ sendLog # <<>> /\ AllAnswered
        /\ InRange2xx(Val(resp).StatusCode)) =>
        /\ IsWriter(Val(dest))
        /\ bodyLog = <<"Copy", "Drain", "Close">>
        /\ ret.err = Nil
        /\ ret.result # Nil
        /\ Val(ret.result).Content = Some(Val(resp).Body.raw)

(* C8: every request built by a client made by NewFromToken(t) carries the  *)
(* Authorization header "Bearer " followed by t.                             *)
C8_BearerSpaceToken ==
    (client.ctor = "NewFromToken" /\ req # Nil) =>
        /\ "Authorization" \in DOMAIN Val(req).Header
        /\ Val(req).Header["Authorization"] = <<"Bearer " \o client.token>>

(* Do has its final response: answered, not 202, no transport error. *)
HasFinalResponse ==
    /\ sendLog # <<>>
    /\ Last(sendLog).outcome.kind = "response"
    /\ Last(sendLog).outcome.StatusCode # 202

(* C9: a Do call that has its final response and a registered callback      *)
(* invokes the callback exactly once, with the call's request and the final *)
(* response, for a status inside or outside [200,299], never with a 202,    *)
(* and before anything has read or closed the body.                         *)
C9_CallbackOnceOnFinalResponse ==
    /\ Len(cbLog) <= 1
    /\ \A i \in 1..Len(cbLog) :
          /\ HasFinalResponse
          /\ cbLog[i].cb = onRequestCompleted
          /\ cbLog[i].method = Val(req).method
          /\ cbLog[i].url = Val(req).url
          /\ cbLog[i].StatusCode = Last(sendLog).outcome.StatusCode
          /\ cbLog[i].StatusCode # 202
          /\ cbLog[i].attempt = Len(sendLog)
          /\ cbLog[i].bodyLog = <<>>
    /\ (HasFinalResponse /\ onRequestCompleted # "nil" /\ pc \in {"process", "done"})
          => Len(cbLog) = 1
    /\ (HasFinalResponse /\ pc \in {"cbcheck", "cbcall"}) => bodyLog = <<>>
    /\ onRequestCompleted = "nil" => cbLog = <<>>

C9_Witness ==
    /\ pc = "done"
    /\ Len(sendLog) = 2
    /\ sendLog[1].outcome.StatusCode = 202
    /\ sendLog[2].outcome.StatusCode = 404
    /\ Len(cbLog) = 1
    /\ cbLog[1].cb = "cb1"
    /\ cbLog[1].StatusCode = 404
    /\ bodyLog # <<>>

(* C10: no operation writes client configuration while another is running:  *)
(* between the nil test of the callback and its call the field is the one   *)
(* the test read, and the call never finds it nil.                          *)
C10_CallbackStableDuringCall ==
    /\ pc = "cbcall" => onRequestCompleted = cbSeen
    /\ panicAt # "Do: c.onRequestCompleted(req, resp)"

(* C11: every attempt of a Do call transmits the request the first attempt  *)
(* transmitted: the call's method, URL and headers, and, for a request      *)
(* built with a body, the complete bytes NewRequest encoded, never a        *)
(* consumed or empty body.                                                   *)
C11_RetrySendsSameRequest ==
    \A i \in 1..Len(sendLog) :
        /\ sendLog[i].sent = sendLog[1].sent
        /\ Val(req).Body # Nil => sendLog[i].sent = Val(Val(req).Body)

(* C12: every response a Do call obtains is closed before the next attempt  *)
(* is sent, and when Do returns no response body received during the call,  *)
(* intermediate 202 or final, is still open.                                *)
C12_NoOpenBodyBeforeNextSend ==
    pc \in {"send", "done"} => openBodies = 0

(* What Do reads of the final body before its cleanup: the whole body of a  *)
(* non-2xx response, nothing when there is no destination, the copy into a  *)
(* byte sink, or one JSON decode.                                            *)
FinalBodyRead ==
    IF ~InRange2xx(Val(resp).StatusCode) THEN <<"ReadAll">>
    ELSE IF dest = Nil THEN <<>>
    ELSE IF IsWriter(Val(dest)) THEN <<"Copy">>
    ELSE <<"Decode">>

Closes == {i \in 1..Len(bodyLog) : bodyLog[i] = "Close"}

(* C13: a Do call with a final (non-202) response closes that body exactly  *)
(* once before it returns, and not before; the drain and the close are the  *)
(* last actions on the body, after the error-body read, the JSON decode or  *)
(* the copy into the byte sink; the drain happens exactly when the content  *)
(* length is unknown or at most 2048; and a byte sink has received the      *)
(* whole body, whatever its length.                                          *)
C13_CleanupLastAndOnce ==
    /\ (HasFinalResponse /\ pc \in {"cbcheck", "cbcall", "process"}) => bodyLog = <<>>
    /\ (HasFinalResponse /\ pc = "done") =>
          LET r == Val(resp)
              drained == r.ContentLength = -1 \/ r.ContentLength <= 2048
          IN /\ Cardinality(Closes) = 1
             /\ Last(bodyLog) = "Close"
             /\ bodyLog = FinalBodyRead
                            \o (IF drained THEN <<"Drain">> ELSE <<>>)
                            \o <<"Close">>
             /\ openBodies =
                   Cardinality({i \in 1..Len(sendLog) : sendLog[i].outcome.StatusCode = 202})
             /\ (InRange2xx(r.StatusCode) /\ dest # Nil /\ IsWriter(Val(dest))) =>
                   Val(dest).val.Content = Some(r.Body.raw)
             /\ (~InRange2xx(r.StatusCode) /\ ~r.Body.valid) =>
                   Val(ret.err).Message = r.Body.raw

(* C13's cases: a byte sink that received a body longer than 2048 bytes of  *)
(* unknown length before the drain ran, after a retry.                       *)
C13_Witness ==
    /\ pc = "done"
    /\ call.op = "Client.Do"
    /\ Len(sendLog) = 2
    /\ HasFinalResponse
    /\ Val(resp).ContentLength = -1
    /\ Len(Val(resp).Body.raw) > 2048
    /\ bodyLog = <<"Copy", "Drain", "Close">>
    /\ Val(dest).val.Content = Some(Val(resp).Body.raw)

(* C14: the error Do returns is the pending API or decode error when there  *)
(* is one, whatever closing the body reported, and otherwise the error of   *)
(* closing the final response body; a failed drain read changes nothing.    *)
C14_CloseErrorReturnedWhenNonePending ==
    (pc = "done" /\ HasFinalResponse) => ret.err = deferErr

(* The resource path the operation of the current call is documented to     *)
(* address.                                                                  *)
DocumentedPath ==
    CASE call.op \in {"Blueprints.Get", "Blueprints.Update", "Blueprints.Delete"} ->
            blueprintBasePath \o "/" \o call.args.id
      [] call.op \in {"AwsAccounts.Get", "AwsAccounts.Update", "AwsAccounts.Delete"} ->
            awsAccountBasePath \o "/" \o call.args.id
      [] call.op = "Users.Get" -> userBasePath \o "/" \o call.args.id
      [] call.op = "Users.Me" -> userBasePath \o "/me"
      [] OTHER -> ""

(* C15: an identifier-keyed operation called with a non-empty identifier    *)
(* (and a body where it takes one) builds a request for the resource path   *)
(* that ends in that identifier: blueprint/{id}, aws/account/{id},          *)
(* user/{id}, and user/me for Me; different identifiers therefore give      *)
(* different paths.                                                          *)
C15_PathCarriesIdentifier ==
    (DocumentedPath # "" /\ ~BadArguments) =>
        /\ req # Nil
        /\ Join(Val(req).path) = DocumentedPath
        /\ Val(req).url = client.BaseURL \o DocumentedPath

====
